---- MODULE Spec2Model ----
(***************************************************************************)
(* ELECDRAFT wire auto-routing core: the obstacle query                    *)
(* (DesignCanvas.is_wall_at), the A* planner                               *)
(* (WireItem.calculate_astar_path), the wire path cache                    *)
(* (WireItem.update_position, ElectricalComponent.itemChange), wire        *)
(* creation and component removal, and the homerun breadth-first tree      *)
(* (MainWindow._update_homerun_folder).                                    *)
(*                                                                         *)
(* Points and grid nodes are pairs <<x, y>> of integers.  None is Python's *)
(* None.                                                                   *)
(***************************************************************************)
EXTENDS Integers, Sequences, FiniteSets, TLC

VARIABLES
    obstacle_map,    \* DesignCanvas.obstacle_map: None or a bitmap
    floorplan_item,  \* DesignCanvas.floorplan_item: None or the pixmap item
    importer,        \* the floor-plan import: where the GUI and worker threads are
    start, end,      \* arguments of the running calculate_astar_path call
    pc,              \* position of that call: idle, search, reconstruct, done, diverged
    search,          \* its locals queue, came_from, cost_so_far (and s_node, e_node)
    path,            \* its return value
    traversal,       \* the running _update_homerun_folder call: its locals
    returned,        \* what earlier calls returned, by <<start, end>>
    comps,           \* every ElectricalComponent created, by identity 1, 2, ...
    items,           \* the components in canvas.scene, in insertion order
    wires,           \* every WireItem in canvas.scene, in creation order
    homerun_folders, \* MainWindow._homerun_folders: name -> folder of the tree
    undo_stack,      \* MainWindow._undo_stack
    redo_stack,      \* MainWindow._redo_stack
    is_modified,     \* MainWindow._is_modified
    hung             \* a handler is stuck in a path search that never ends

mapVars == <<obstacle_map, floorplan_item, importer>>
callVars == <<start, end, pc, search, path, traversal, returned>>
canvasVars == <<comps, items, wires, homerun_folders, undo_stack, redo_stack,
                is_modified, hung>>
vars == <<mapVars, callVars, canvasVars>>

None == <<>>

----------------------------------------------------------------------------
(* Bounds of the model *)

\* The bitmap covers MapCols x MapRows grid nodes.
MapCols == 3
MapRows == 3
\* At most MaxWalls of those nodes lie on dark pixels.
MaxWalls == 4
\* At most MaxComponents components are created and MaxWires wires drawn.
MaxComponents == 3
MaxWires == 2
\* The topology is exercised on a feeder and MaxLoads loads, with at most
\* MaxConnections calls of add_connection.
MaxLoads == 3
MaxConnections == 4
\* The traversal is followed step by step on every connection graph of
\* MaxGraph components.
MaxGraph == 3
\* Calls of the planner are repeated until MaxRecorded different inputs have
\* returned.
MaxRecorded == 2

----------------------------------------------------------------------------
(* Program constants *)

GridUnit == 20
WallThreshold == 120
UndoLimit == 30

Abs(n) == IF n < 0 THEN -n ELSE n

\* Python's round(p / grid) for an integer p: nearest integer, a tie to the even one.
PyRound(p, grid) ==
    LET q == p \div grid
        r == p % grid
    IN  IF 2 * r < grid THEN q
        ELSE IF 2 * r > grid THEN q + 1
        ELSE IF q % 2 = 0 THEN q ELSE q + 1

\* A variant that keeps the position as it is.
SnapNodeNone(p) == p

\* round(coord / grid) * grid on both axes (canvas.py 67-68).
SnapNode(p) == <<PyRound(p[1], GridUnit) * GridUnit, PyRound(p[2], GridUnit) * GridUnit>>

----------------------------------------------------------------------------
(* The obstacle bitmap *)

\* Pixels of the bitmap the planner can sample: the grid nodes inside its bounds.
MapWidth == MapCols * GridUnit
MapHeight == MapRows * GridUnit
MapNodes == {<<c * GridUnit, r * GridUnit>> : c \in 0..(MapCols - 1), r \in 0..(MapRows - 1)}

\* Two lightness values, one on each side of the threshold.
Lightnesses == {WallThreshold - 1, WallThreshold}

BitmapOf(dark) ==
    [width |-> MapWidth, height |-> MapHeight,
     lightness |-> [p \in MapNodes |-> IF p \in dark THEN WallThreshold - 1 ELSE WallThreshold]]

Bitmaps == {BitmapOf(dark) : dark \in {d \in SUBSET MapNodes : Cardinality(d) <= MaxWalls}}

\* The pixmap item sits at the scene origin (canvas.py 311), unscaled.
FloorplanItem == [pos |-> <<0, 0>>]

\* QGraphicsItem.mapFromScene for an untransformed item.
MapFromScene(item, scene_pos) == <<scene_pos[1] - item.pos[1], scene_pos[2] - item.pos[2]>>

\* A variant that takes every pixel for floor.
is_wall_at_open(omap, fitem, scene_pos) == FALSE

\* A variant whose threshold test includes the threshold itself.
is_wall_at_inclusive(omap, fitem, scene_pos) ==
    IF omap = None \/ fitem = None THEN FALSE
    ELSE LET local_p == MapFromScene(fitem, scene_pos)
             x == local_p[1]
             y == local_p[2]
         IN  IF 0 <= x /\ x < omap.width /\ 0 <= y /\ y < omap.height
             THEN omap.lightness[<<x, y>>] <= WallThreshold
             ELSE FALSE

\* DesignCanvas.is_wall_at (canvas.py 341-357).
is_wall_at(omap, fitem, scene_pos) ==
    IF omap = None \/ fitem = None THEN FALSE
    ELSE LET local_p == MapFromScene(fitem, scene_pos)
             x == local_p[1]
             y == local_p[2]
         IN  IF 0 <= x /\ x < omap.width /\ 0 <= y /\ y < omap.height
             THEN omap.lightness[<<x, y>>] < WallThreshold
             ELSE FALSE

----------------------------------------------------------------------------
(* The plane.  The code searches the unbounded plane of grid nodes; every    *)
(* node outside the bitmap is free.  Endpoints lie in Area, the bitmap with  *)
(* a ring of one free node around it.  A route that leaves Area can be       *)
(* pushed back onto that ring without growing longer, so reachability and    *)
(* shortest distances inside Area are those of the unbounded plane.          *)

AreaXs == {c * GridUnit : c \in (-1)..MapCols}
AreaYs == {r * GridUnit : r \in (-1)..MapRows}
Area == AreaXs \X AreaYs

\* The same for any bitmap: its grid nodes and the ring around them.
AreaOf(omap) ==
    {c * GridUnit : c \in (-1)..(omap.width \div GridUnit)}
        \X {r * GridUnit : r \in (-1)..(omap.height \div GridUnit)}

UnitStep(a, b) ==
    \/ Abs(a[1] - b[1]) = GridUnit /\ a[2] = b[2]
    \/ a[1] = b[1] /\ Abs(a[2] - b[2]) = GridUnit

RECURSIVE BfsFrom(_, _, _, _, _, _)
BfsFrom(omap, fitem, frontier, seen, k, target) ==
    LET nxt == {m \in AreaOf(omap) \ seen :
                   ~is_wall_at(omap, fitem, m) /\ \E n \in frontier : UnitStep(n, m)}
    IN  IF nxt = {} THEN -1
        ELSE IF target \in nxt THEN k + 1
        ELSE BfsFrom(omap, fitem, nxt, seen \cup nxt, k + 1, target)

\* Number of steps of a shortest route from s to e over free nodes (s itself may
\* be blocked), found breadth-first; -1 if there is none.
BfsDist(omap, fitem, s, e) == IF s = e THEN 0 ELSE BfsFrom(omap, fitem, {s}, {s}, 0, e)

----------------------------------------------------------------------------
(* WireItem.calculate_astar_path (canvas.py 63-104) *)

\* f with key k set to v (a Python dict assignment).
Put(f, k, v) == [n \in DOMAIN f \cup {k} |-> IF n = k THEN v ELSE f[n]]

\* Python's order on the heap entries (priority, (x, y)).
EntryLess(a, b) ==
    \/ a[1] < b[1]
    \/ a[1] = b[1] /\ a[2][1] < b[2][1]
    \/ a[1] = b[1] /\ a[2][1] = b[2][1] /\ a[2][2] < b[2][2]

\* heapq.heappop: the least entry.
HeapMin(queue) ==
    LET prio == CHOOSE p \in {a[1] : a \in queue} : \A a \in queue : p <= a[1]
        least == {a \in queue : a[1] = prio}
    IN  CHOOSE a \in least : \A b \in least : a = b \/ EntryLess(a, b)

\* The four moves, in the order the code tries them (canvas.py 82).
Dirs == <<<<GridUnit, 0>>, <<-GridUnit, 0>>, <<0, GridUnit>>, <<0, -GridUnit>>>>

\* |e.x - n.x| + |e.y - n.y| (canvas.py 92).
HeuristicOvershoot(e_node, n) ==
    Abs(e_node[1] - n[1]) + Abs(e_node[2] - n[2]) + GridUnit
HeuristicWeighted(e_node, n) == 3 * (Abs(e_node[1] - n[1]) + Abs(e_node[2] - n[2]))
Heuristic(e_node, n) == Abs(e_node[1] - n[1]) + Abs(e_node[2] - n[2])

\* A variant that takes every free neighbour, whatever its recorded cost.
ImprovesAlways(cost_so_far, nxt, new_cost) == TRUE

\* A variant that also takes a node found again at the same cost.
ImprovesOrEqual(cost_so_far, nxt, new_cost) ==
    nxt \notin DOMAIN cost_so_far \/ new_cost <= cost_so_far[nxt]

\* Whether a newly found cost replaces the recorded one (canvas.py 90).
Improves(cost_so_far, nxt, new_cost) ==
    nxt \notin DOMAIN cost_so_far \/ new_cost < cost_so_far[nxt]

\* A variant that keeps came_from and cost_so_far of the call before.
InitSearchStale(s_node, e_node) ==
    IF search.pc = "idle"
    THEN [pc |-> "search", s_node |-> s_node, e_node |-> e_node,
          queue |-> {<<0, s_node>>},
          came_from |-> [n \in {s_node} |-> None],
          cost_so_far |-> [n \in {s_node} |-> 0]]
    ELSE [pc |-> "search", s_node |-> s_node, e_node |-> e_node,
          queue |-> {<<0, s_node>>},
          came_from |-> Put(search.came_from, s_node, None),
          cost_so_far |-> Put(search.cost_so_far, s_node, 0)]

\* The locals after line 76.
InitSearch(s_node, e_node) ==
    [pc |-> "search", s_node |-> s_node, e_node |-> e_node,
     queue |-> {<<0, s_node>>},
     came_from |-> [n \in {s_node} |-> None],
     cost_so_far |-> [n \in {s_node} |-> 0]]

\* One pass of the inner for loop (canvas.py 83-94) for the move d from current.
Relax(st, omap, fitem, current, d) ==
    LET nxt == <<current[1] + d[1], current[2] + d[2]>>
        new_cost == st.cost_so_far[current] + GridUnit
    IN  IF is_wall_at(omap, fitem, nxt) THEN st
        ELSE IF Improves(st.cost_so_far, nxt, new_cost)
        THEN [st EXCEPT !.cost_so_far = Put(@, nxt, new_cost),
                        !.queue = @ \cup {<<new_cost + Heuristic(st.e_node, nxt), nxt>>},
                        !.came_from = Put(@, nxt, current)]
        ELSE st

\* The whole for loop for one popped node.
ExpandNode(st, omap, fitem, current) ==
    Relax(Relax(Relax(Relax(st, omap, fitem, current, Dirs[1]),
                      omap, fitem, current, Dirs[2]),
                omap, fitem, current, Dirs[3]),
          omap, fitem, current, Dirs[4])

\* One pass of the while loop (canvas.py 78-94): the loop ends on an empty queue
\* or on popping e_node.  With every other node it goes on, in the model as far
\* as the search can still end: once it pops a node outside Area while no route
\* to e_node exists, it is expanding the unbounded free plane, where the queue
\* never empties, and the model stops following it (pc = "diverged").
LoopStep(st, omap, fitem) ==
    IF st.queue = {} THEN [st EXCEPT !.pc = "reconstruct"]
    ELSE LET entry == HeapMin(st.queue)
             current == entry[2]
             popped == [st EXCEPT !.queue = @ \ {entry}]
         IN  IF current = st.e_node THEN [popped EXCEPT !.pc = "reconstruct"]
             ELSE IF current \notin AreaOf(omap)
                     /\ BfsDist(omap, fitem, st.s_node, st.e_node) = -1
             THEN [popped EXCEPT !.pc = "diverged"]
             ELSE ExpandNode(popped, omap, fitem, current)

RECURSIVE Chain(_, _)
\* The predecessor walk of lines 100-102, from curr back to the start node.
Chain(came_from, curr) ==
    IF curr = None THEN <<>> ELSE <<curr>> \o Chain(came_from, came_from[curr])

Reverse(s) == [i \in 1..Len(s) |-> s[Len(s) + 1 - i]]

\* The fallback of line 99.
FallbackPath(from, to, s_node, e_node) == <<from, to>>

\* Lines 96-104.
Reconstruct(st, from, to) ==
    IF st.e_node \notin DOMAIN st.came_from
    THEN FallbackPath(from, to, st.s_node, st.e_node)
    ELSE Reverse(Chain(st.came_from, st.e_node))

\* The bend of line 72, returned when no bitmap is loaded.
BendPath(from, to, s_node, e_node) == <<from, <<e_node[1], s_node[2]>>, to>>

RECURSIVE RunSearch(_, _, _)
\* The while loop run to its end.
RunSearch(st, omap, fitem) ==
    IF st.pc = "search" THEN RunSearch(LoopStep(st, omap, fitem), omap, fitem) ELSE st

\* What calculate_astar_path returns; None (no return) when the search leaves Window.
calculate_astar_path(from, to, omap, fitem) ==
    LET s_node == SnapNode(from)
        e_node == SnapNode(to)
    IN  IF omap = None THEN BendPath(from, to, s_node, e_node)
        ELSE LET fin == RunSearch(InitSearch(s_node, e_node), omap, fitem)
             IN  IF fin.pc = "diverged" THEN None ELSE Reconstruct(fin, from, to)

----------------------------------------------------------------------------
(* The planner run step by step *)

\* Positions on a half-grid raster, on and off the grid nodes.
HalfUnit == GridUnit \div 2
FinePoints == {<<i * HalfUnit, j * HalfUnit>> : i \in (-2)..(2 * MapCols), j \in (-2)..(2 * MapRows)}

\* With a bitmap loaded: starts on every bitmap node and on one node outside it.
StartPoints == MapNodes \cup {<<-GridUnit, -GridUnit>>}

NoSearch == [pc |-> "idle"]
NoTraversal == [pc |-> "idle"]
NoImport == [gui |-> "idle", worker |-> "off"]

\* MainWindow.__init__ (main.py 475-482) and DesignCanvas.__init__: nothing on
\* the canvas yet.
EmptyCanvas ==
    /\ comps = <<>>
    /\ items = <<>>
    /\ wires = <<>>
    /\ homerun_folders = <<>>
    /\ undo_stack = <<>>
    /\ redo_stack = <<>>
    /\ is_modified = FALSE
    /\ hung = FALSE

InitSearchSpec ==
    /\ \/ obstacle_map = None /\ floorplan_item = None
          /\ start \in FinePoints /\ end \in FinePoints
       \/ obstacle_map \in Bitmaps /\ floorplan_item = FloorplanItem
          /\ start \in StartPoints /\ end \in Area
    /\ pc = "idle"
    /\ search = NoSearch
    /\ path = None
    /\ traversal = NoTraversal
    /\ returned = <<>>
    /\ importer = NoImport
    /\ EmptyCanvas

\* Lines 63-72: no bitmap, the bend is returned at once.
CallNoMap ==
    /\ pc = "idle"
    /\ obstacle_map = None
    /\ path' = BendPath(start, end, SnapNode(start), SnapNode(end))
    /\ pc' = "done"
    /\ UNCHANGED <<obstacle_map, floorplan_item, importer, start, end, search, traversal, returned>>
    /\ UNCHANGED canvasVars

\* Lines 63-76: a bitmap is loaded, the search is set up.
CallSearch ==
    /\ pc = "idle"
    /\ obstacle_map # None
    /\ search' = InitSearch(SnapNode(start), SnapNode(end))
    /\ pc' = "search"
    /\ UNCHANGED <<obstacle_map, floorplan_item, importer, start, end, path, traversal, returned>>
    /\ UNCHANGED canvasVars

\* Lines 78-94: one pass of the while loop.
Expand ==
    /\ pc = "search"
    /\ search' = LoopStep(search, obstacle_map, floorplan_item)
    /\ pc' = search'.pc
    /\ UNCHANGED <<obstacle_map, floorplan_item, importer, start, end, path, traversal, returned>>
    /\ UNCHANGED canvasVars

\* Lines 96-104: the path is rebuilt, or the fallback returned.
Return ==
    /\ pc = "reconstruct"
    /\ path' = Reconstruct(search, start, end)
    /\ pc' = "done"
    /\ UNCHANGED <<obstacle_map, floorplan_item, importer, start, end, search, traversal, returned>>
    /\ UNCHANGED canvasVars

NextSearch == CallNoMap \/ CallSearch \/ Expand \/ Return

SpecSearch == InitSearchSpec /\ [][NextSearch]_vars

----------------------------------------------------------------------------
(* Components, wires and the homerun tree *)

SeqToSet(s) == {s[i] : i \in 1..Len(s)}

\* Toolbox entries (main.py 936-950): the name and the type a new component gets.
Library == {[name |-> "Feeder", type |-> "Feeder"],
            [name |-> "Duplex", type |-> "Receptacle"]}

\* Names that contain the word Homerun (main.py 1714).
HomerunNames == {"Homerun"}

\* ElectricalComponent.__init__ (canvas.py 121-144).
ElectricalComponent(kind, p) ==
    [name |-> kind.name, comp_type |-> kind.type, pos |-> p,
     connections |-> <<>>, wires |-> <<>>]

\* scenePos() + QPointF(20, 20) (canvas.py 53-54).
Anchor(p) == <<p[1] + 20, p[2] + 20>>

\* scene.items(): descending stacking order, the item added last comes first.
SceneItems(its) == Reverse(its)

\* Where a new component appears: the centre of the view (canvas.py 474-478).
SceneCentre == <<-10, -20>>

\* Positions a drag proposes (the value of ItemPositionChange).
MoveInputs == {<<20, 10>>, <<0, 0>>}

\* The floor plan of the canvas runs: none, or one with a wall on its middle node.
CanvasBitmaps == {BitmapOf({<<GridUnit, GridUnit>>})}

\* The floor plans set_template is given: the one above and one with its wall
\* elsewhere.
TemplateBitmaps == CanvasBitmaps \cup {BitmapOf({<<GridUnit, 0>>})}

\* The positions a component can take, and the floor plans there can be.
CanvasPositions == {SceneCentre} \cup {SnapNode(value) : value \in MoveInputs}
CanvasMaps ==
    {<<None, None>>} \cup {<<omap, FloorplanItem>> : omap \in CanvasBitmaps \cup TemplateBitmaps}

\* calculate_astar_path tabulated over the canvas inputs (computed once).
PathTable ==
    [m \in CanvasMaps, from \in CanvasPositions, to \in CanvasPositions |->
        calculate_astar_path(Anchor(from), Anchor(to), m[1], m[2])]

\* A variant that routes by kind: a feeder line runs straight.
WirePathByKind(cs, a, b, omap, fitem) ==
    IF "Feeder" \in {cs[a].comp_type, cs[b].comp_type}
    THEN <<Anchor(cs[a].pos), Anchor(cs[b].pos)>>
    ELSE PathTable[<<omap, fitem>>, cs[a].pos, cs[b].pos]

\* The path of a wire from a to b at the positions in cs (canvas.py 53-57).
WirePath(cs, a, b, omap, fitem) == PathTable[<<omap, fitem>>, cs[a].pos, cs[b].pos]

\* WireItem.__init__ (canvas.py 41-50), given the path update_position computed;
\* line is the segment p1, p2 that update_position sets (canvas.py 61).
WireItem(cs, a, b, points) ==
    [start_item |-> a, end_item |-> b, path_points |-> points,
     line |-> <<Anchor(cs[a].pos), Anchor(cs[b].pos)>>,
     is_feeder_line |-> "Feeder" \in {cs[a].comp_type, cs[b].comp_type}]

\* ElectricalComponent.add_connection (canvas.py 182-186): self's list after the call.
add_connection(connections, other_item) ==
    IF other_item \notin SeqToSet(connections)
    THEN Append(connections, other_item)
    ELSE connections

RECURSIVE VisitNeighboursFront(_, _, _, _)
\* A depth-first variant: a neighbour found goes to the front of the queue.
VisitNeighboursFront(connections, i, visited, queue) ==
    IF i > Len(connections) THEN [visited |-> visited, queue |-> queue]
    ELSE IF connections[i] \notin visited
    THEN VisitNeighboursFront(connections, i + 1, visited \cup {connections[i]},
                              <<connections[i]>> \o queue)
    ELSE VisitNeighboursFront(connections, i + 1, visited, queue)

RECURSIVE VisitNeighboursUnmarked(_, _, _, _)
\* A variant without the visited test: every neighbour is queued.
VisitNeighboursUnmarked(connections, i, visited, queue) ==
    IF i > Len(connections) THEN [visited |-> visited, queue |-> queue]
    ELSE VisitNeighboursUnmarked(connections, i + 1, visited \cup {connections[i]},
                                 Append(queue, connections[i]))

RECURSIVE VisitNeighbours(_, _, _, _)
\* The for loop of main.py 1746-1749 over connections[i..].
VisitNeighbours(connections, i, visited, queue) ==
    IF i > Len(connections) THEN [visited |-> visited, queue |-> queue]
    ELSE IF connections[i] \notin visited
    THEN VisitNeighbours(connections, i + 1, visited \cup {connections[i]},
                         Append(queue, connections[i]))
    ELSE VisitNeighbours(connections, i + 1, visited, queue)

RECURSIVE BfsLoop(_, _, _, _, _)
\* The while loop of main.py 1741-1749.
BfsLoop(cs, item, visited, queue, connected_items) ==
    IF queue = <<>> THEN connected_items
    ELSE LET current == Head(queue)
             listed == IF current # item THEN Append(connected_items, current)
                       ELSE connected_items
             v == VisitNeighbours(cs[current].connections, 1, visited, Tail(queue))
         IN  BfsLoop(cs, item, v.visited, v.queue, listed)

\* A variant that lists the components found from the last to the first.
ConnectedItemsReversed(cs, item) ==
    LET RECURSIVE Loop(_, _, _)
        Loop(visited, queue, connected_items) ==
            IF queue = <<>> THEN connected_items
            ELSE LET current == Head(queue)
                     listed == IF current # item
                               THEN <<current>> \o connected_items
                               ELSE connected_items
                     found == SelectSeq(cs[current].connections,
                                        LAMBDA n : n \notin visited)
                 IN  Loop(visited \cup SeqToSet(found), Tail(queue) \o found, listed)
    IN  Loop({item}, <<item>>, <<>>)

\* main.py 1736-1749: the components listed under the homerun of item.
ConnectedItems(cs, item) == BfsLoop(cs, item, {item}, <<item>>, <<>>)

NewFolder == [children |-> <<>>, expanded |-> FALSE]

\* A variant that patches the folder: the components found are added to the
\* children the folder already has.
patch_homerun_folder(folders, cs, item) ==
    LET name == cs[item].name
        folder == IF name \in DOMAIN folders THEN folders[name]
                  ELSE [children |-> <<>>, expanded |-> FALSE]
    IN  [n \in DOMAIN folders \cup {name} |->
            IF n = name
            THEN [folder EXCEPT !.children =
                     @ \o SelectSeq(BfsLoop(cs, item, {item}, <<item>>, <<>>),
                                    LAMBDA c : \A i \in 1..Len(folder.children) :
                                                   folder.children[i] # c)]
            ELSE folders[n]]

\* A variant that discards the folder and makes a new one in its place.
recreate_homerun_folder(folders, cs, item) ==
    Put(folders, cs[item].name,
        [children |-> ConnectedItems(cs, item), expanded |-> FALSE])

\* MainWindow._update_homerun_folder (main.py 1719-1766).
update_homerun_folder(folders, cs, item) ==
    LET name == cs[item].name
        folder == IF name \in DOMAIN folders THEN folders[name] ELSE NewFolder
        was_expanded == folder.expanded
    IN  Put(folders, name,
            [children |-> ConnectedItems(cs, item),
             expanded |-> IF was_expanded THEN TRUE ELSE folder.expanded])

\* The test of main.py 1714.
IsHomerunRoot(c) == c.comp_type = "Feeder" \/ c.name \in HomerunNames

RECURSIVE SyncFrom(_, _, _, _)
SyncFrom(folders, cs, order, i) ==
    IF i > Len(order) THEN folders
    ELSE SyncFrom(IF IsHomerunRoot(cs[order[i]])
                  THEN update_homerun_folder(folders, cs, order[i])
                  ELSE folders,
                  cs, order, i + 1)

\* MainWindow._sync_data (main.py 1679-1717), as far as the tree goes.
sync_data(folders, cs, its) == SyncFrom(folders, cs, SceneItems(its), 1)

\* The snapshot of main.py 1314-1315.
Snapshot(cs, its) ==
    LET order == SceneItems(its)
    IN  [i \in 1..Len(order) |->
            [name |-> cs[order[i]].name, x |-> cs[order[i]].pos[1],
             y |-> cs[order[i]].pos[2], type |-> cs[order[i]].comp_type]]

\* A variant that never drops the oldest snapshot.
push_undo_untrimmed(undo, cs, its) == Append(undo, Snapshot(cs, its))

\* MainWindow._push_undo (main.py 1312-1319): the undo stack after the call.
push_undo(undo, cs, its) ==
    LET pushed == Append(undo, Snapshot(cs, its))
    IN  IF Len(pushed) > UndoLimit THEN Tail(pushed) ELSE pushed

----------------------------------------------------------------------------
(* The canvas: components are added, wired, dragged and deleted *)

InitCanvas ==
    /\ \/ obstacle_map = None /\ floorplan_item = None
       \/ obstacle_map \in CanvasBitmaps /\ floorplan_item = FloorplanItem
    /\ start = None /\ end = None /\ pc = "idle" /\ search = NoSearch /\ path = None
    /\ traversal = NoTraversal
    /\ returned = <<>>
    /\ importer = NoImport
    /\ EmptyCanvas

\* DesignCanvas.add_component (canvas.py 471-484); circuit_updated runs
\* _sync_data and _mark_modified (main.py 913-914).
AddComponent(kind) ==
    /\ ~hung
    /\ Len(comps) < MaxComponents
    /\ comps' = Append(comps, ElectricalComponent(kind, SceneCentre))
    /\ items' = Append(items, Len(comps) + 1)
    /\ homerun_folders' = sync_data(homerun_folders, comps', items')
    /\ is_modified' = TRUE
    /\ UNCHANGED <<wires, undo_stack, redo_stack, hung, mapVars, callVars>>

\* A variant that tracks the new wire in the start component alone.
TrackWireStart(cs, a, b, new_wire) ==
    [cs EXCEPT ![a].wires = Append(@, new_wire)]

\* "Track wires in components" (canvas.py 459-461): the new wire is appended
\* to the wires list of the start item and of the end item.
TrackWire(cs, a, b, new_wire) ==
    [cs EXCEPT ![a].wires = Append(@, new_wire),
               ![b].wires = Append(@, new_wire)]

\* A wire drawn in wire mode: mousePressEvent over a (canvas.py 419-433), then
\* mouseReleaseEvent over another component b (canvas.py 448-469).
ConnectWire(a, b) ==
    /\ ~hung
    /\ Len(wires) < MaxWires
    /\ a \in SeqToSet(items) /\ b \in SeqToSet(items) /\ b # a
    /\ LET points == WirePath(comps, a, b, obstacle_map, floorplan_item)
           new_wire == Len(wires) + 1
       IN  IF points = None
           THEN /\ hung' = TRUE
                /\ UNCHANGED <<comps, items, wires, homerun_folders, is_modified>>
           ELSE /\ wires' = Append(wires, WireItem(comps, a, b, points))
                /\ comps' = TrackWire(comps, a, b, new_wire)
                /\ homerun_folders' = sync_data(homerun_folders, comps', items)
                /\ is_modified' = TRUE
                /\ UNCHANGED <<items, hung>>
    /\ UNCHANGED <<undo_stack, redo_stack, mapVars, callVars>>

\* A variant that updates every wire of the scene.
WiresToUpdateAll(cs, ws, c) == 1..Len(ws)

\* "for wire in self.wires" (canvas.py 172): the wires itemChange updates.
WiresToUpdate(cs, ws, c) == SeqToSet(cs[c].wires)

\* The paths after ElectricalComponent.itemChange ran update_position on every
\* wire of component c (canvas.py 172-173): scenePos() is read while the item
\* still has the position it had before the change.
MovedPaths(cs, ws, c, omap, fitem) ==
    [w \in 1..Len(ws) |->
        IF w \in WiresToUpdate(cs, ws, c)
        THEN WirePath(cs, ws[w].start_item, ws[w].end_item, omap, fitem)
        ELSE ws[w].path_points]

\* ElectricalComponent.itemChange for ItemPositionChange (canvas.py 166-175): Qt
\* delivers it from setPos before the position changes, and then adopts the
\* returned, snapped position.
MoveComponent(c, value) ==
    /\ ~hung
    /\ c \in SeqToSet(items)
    /\ value # comps[c].pos
    /\ LET new_pos == SnapNode(value)
           points == MovedPaths(comps, wires, c, obstacle_map, floorplan_item)
       IN  IF \E w \in 1..Len(wires) : points[w] = None
           THEN /\ hung' = TRUE
                /\ UNCHANGED <<comps, wires>>
           ELSE /\ wires' = [w \in 1..Len(wires) |->
                                IF w \in WiresToUpdate(comps, wires, c)
                                THEN [wires[w] EXCEPT
                                         !.path_points = points[w],
                                         !.line = <<Anchor(comps[wires[w].start_item].pos),
                                                    Anchor(comps[wires[w].end_item].pos)>>]
                                ELSE wires[w]]
                /\ comps' = [comps EXCEPT ![c].pos = new_pos]
                /\ UNCHANGED hung
    /\ UNCHANGED <<items, homerun_folders, undo_stack, redo_stack, is_modified,
                   mapVars, callVars>>

\* MainWindow.delete_selected (main.py 1513-1524), answered Yes, with the
\* components of selected selected.
DeleteSelected(selected) ==
    /\ ~hung
    /\ selected # {}
    /\ selected \subseteq SeqToSet(items)
    /\ undo_stack' = push_undo(undo_stack, comps, items)
    /\ redo_stack' = <<>>
    /\ items' = SelectSeq(items, LAMBDA c : c \notin selected)
    /\ homerun_folders' = sync_data(homerun_folders, comps, items')
    /\ is_modified' = TRUE
    /\ UNCHANGED <<comps, wires, hung, mapVars, callVars>>

CompIds == 1..MaxComponents

\* Components are added, wired and dragged.
Next ==
    \/ \E kind \in Library : AddComponent(kind)
    \/ \E a \in CompIds, b \in CompIds : ConnectWire(a, b)
    \/ \E c \in CompIds, value \in MoveInputs : MoveComponent(c, value)

Spec == InitCanvas /\ [][Next]_vars

\* Components are added, wired and deleted.
NextScene ==
    \/ \E kind \in Library : AddComponent(kind)
    \/ \E a \in CompIds, b \in CompIds : ConnectWire(a, b)
    \/ \E selected \in SUBSET CompIds : DeleteSelected(selected)

SpecScene == InitCanvas /\ [][NextScene]_vars

----------------------------------------------------------------------------
(* The floor plan is replaced while wires are on the canvas *)

\* A variant of set_template that routes every wire again on the new plan.
template_rerouted(ws, cs, omap, fitem) ==
    [w \in 1..Len(ws) |->
        [ws[w] EXCEPT !.path_points =
            WirePath(cs, ws[w].start_item, ws[w].end_item, omap, fitem)]]

\* The wires after DesignCanvas.set_template (canvas.py 288-339): the method
\* replaces the pixmap item and the cached image and fits the view; it calls
\* no update_position and moves no component.
template_wires(ws, cs, omap, fitem) == ws

\* DesignCanvas.set_template (canvas.py 288-339) with an image that loads.
SetTemplate(pixmap) ==
    /\ ~hung
    /\ floorplan_item' = FloorplanItem
    /\ obstacle_map' = pixmap
    /\ wires' = template_wires(wires, comps, obstacle_map', floorplan_item')
    /\ UNCHANGED <<importer, comps, items, homerun_folders, undo_stack, redo_stack,
                   is_modified, hung, callVars>>

\* The toolbox entry these runs place: the kind of a component plays no part
\* in set_template.
TemplateKinds == {kind \in Library : kind.type = "Receptacle"}

\* An empty canvas without a floor plan.
InitTemplate ==
    /\ obstacle_map = None /\ floorplan_item = None
    /\ start = None /\ end = None /\ pc = "idle" /\ search = NoSearch /\ path = None
    /\ traversal = NoTraversal
    /\ returned = <<>>
    /\ importer = NoImport
    /\ EmptyCanvas

NextTemplate ==
    \/ \E kind \in TemplateKinds : AddComponent(kind)
    \/ \E a \in CompIds, b \in CompIds : ConnectWire(a, b)
    \/ \E c \in CompIds, value \in MoveInputs : MoveComponent(c, value)
    \/ \E pixmap \in TemplateBitmaps : SetTemplate(pixmap)

SpecTemplate == InitTemplate /\ [][NextTemplate]_vars

----------------------------------------------------------------------------
(* Undo and redo *)

\* The components undo_last and redo_last make from a snapshot (main.py 1334-
\* 1336, 597-599): add_component for each entry, then setPos, which itemChange
\* snaps to the grid.
Restored(snap) ==
    [i \in 1..Len(snap) |->
        ElectricalComponent([name |-> snap[i].name, type |-> snap[i].type],
                            SnapNode(<<snap[i].x, snap[i].y>>))]

\* Every component ever created is kept in comps; these runs create at most
\* MaxComponents of them.
CanRestore(snap) == Len(comps) + Len(snap) <= MaxComponents

\* The canvas after scene.clear() and the re-creation of snap's components.
RestoreCanvas(snap) ==
    /\ comps' = comps \o Restored(snap)
    /\ items' = [i \in 1..Len(snap) |-> Len(comps) + i]
    /\ wires' = <<>>
    /\ homerun_folders' = sync_data(homerun_folders, comps', items')
    /\ is_modified' = TRUE

\* MainWindow.new_project (main.py 1272-1283), the unsaved-changes question
\* answered so that it goes on.
NewProject ==
    /\ undo_stack' = push_undo(undo_stack, comps, items)
    /\ redo_stack' = <<>>
    /\ items' = <<>>
    /\ wires' = <<>>
    /\ homerun_folders' = sync_data(homerun_folders, comps, items')
    /\ is_modified' = FALSE
    /\ UNCHANGED <<comps, hung, mapVars, callVars>>

\* MainWindow.undo_last (main.py 1321-1339).
UndoLast ==
    /\ undo_stack # <<>>
    /\ CanRestore(undo_stack[Len(undo_stack)])
    /\ redo_stack' = Append(redo_stack, Snapshot(comps, items))
    /\ undo_stack' = SubSeq(undo_stack, 1, Len(undo_stack) - 1)
    /\ RestoreCanvas(undo_stack[Len(undo_stack)])
    /\ UNCHANGED <<hung, mapVars, callVars>>

\* MainWindow.redo_last (main.py 584-602).
RedoLast ==
    /\ redo_stack # <<>>
    /\ CanRestore(redo_stack[Len(redo_stack)])
    /\ undo_stack' = Append(undo_stack, Snapshot(comps, items))
    /\ redo_stack' = SubSeq(redo_stack, 1, Len(redo_stack) - 1)
    /\ RestoreCanvas(redo_stack[Len(redo_stack)])
    /\ UNCHANGED <<hung, mapVars, callVars>>

\* A canvas without a floor plan, empty or with one component from the toolbox.
InitUndo ==
    /\ obstacle_map = None /\ floorplan_item = None
    /\ start = None /\ end = None /\ pc = "idle" /\ search = NoSearch /\ path = None
    /\ traversal = NoTraversal
    /\ returned = <<>>
    /\ importer = NoImport
    /\ \/ EmptyCanvas
       \/ \E kind \in Library :
              /\ comps = <<ElectricalComponent(kind, SceneCentre)>>
              /\ items = <<1>>
              /\ wires = <<>>
              /\ homerun_folders = sync_data(<<>>, comps, items)
              /\ undo_stack = <<>>
              /\ redo_stack = <<>>
              /\ is_modified = TRUE
              /\ hung = FALSE

NextUndo ==
    \/ NewProject
    \/ UndoLast
    \/ RedoLast

SpecUndo == InitUndo /\ [][NextUndo]_vars

----------------------------------------------------------------------------
(* The navigation tree: components are added, renamed and deleted, and the   *)
(* user opens and closes the homerun folders                                 *)

\* The name typed into the properties panel.
RenameInputs == {"Homerun"}

\* An empty canvas without a floor plan.
InitTree ==
    /\ obstacle_map = None /\ floorplan_item = None
    /\ start = None /\ end = None /\ pc = "idle" /\ search = NoSearch /\ path = None
    /\ traversal = NoTraversal
    /\ returned = <<>>
    /\ importer = NoImport
    /\ EmptyCanvas

\* MainWindow._apply_props (main.py 1794-1805) with component c selected:
\* update_data (canvas.py 177-180), then _sync_data and _mark_modified.
ApplyProps(c, new_name) ==
    /\ c \in SeqToSet(items)
    /\ comps' = [comps EXCEPT ![c].name = new_name]
    /\ homerun_folders' = sync_data(homerun_folders, comps', items)
    /\ is_modified' = TRUE
    /\ UNCHANGED <<items, wires, undo_stack, redo_stack, hung, mapVars, callVars>>

\* The user opens or closes a homerun folder of the QTreeWidget (main.py
\* 1026-1038).
ToggleFolder(name) ==
    /\ name \in DOMAIN homerun_folders
    /\ homerun_folders' = [homerun_folders EXCEPT ![name].expanded = ~@]
    /\ UNCHANGED <<comps, items, wires, undo_stack, redo_stack, is_modified, hung,
                   mapVars, callVars>>

FolderNames == {kind.name : kind \in Library} \cup RenameInputs

NextTree ==
    \/ \E kind \in Library : AddComponent(kind)
    \/ \E c \in CompIds, new_name \in RenameInputs : ApplyProps(c, new_name)
    \/ \E selected \in SUBSET CompIds : DeleteSelected(selected)
    \/ \E name \in FolderNames : ToggleFolder(name)

SpecTree == InitTree /\ [][NextTree]_vars

----------------------------------------------------------------------------
(* The component graph: connections are added and the tree is rebuilt *)

\* A feeder followed by MaxLoads loads, each placed by add_component.
TopologyIds == 1..(MaxLoads + 1)

TopologyComps ==
    [c \in TopologyIds |->
        IF c = 1
        THEN ElectricalComponent([name |-> "Feeder", type |-> "Feeder"], SceneCentre)
        ELSE ElectricalComponent([name |-> "Duplex", type |-> "Receptacle"], SceneCentre)]

ConnectionCount(cs) ==
    LET RECURSIVE Sum(_)
        Sum(c) == IF c = 0 THEN 0 ELSE Len(cs[c].connections) + Sum(c - 1)
    IN  Sum(Len(cs))

InitTopology ==
    /\ obstacle_map = None /\ floorplan_item = None
    /\ start = None /\ end = None /\ pc = "idle" /\ search = NoSearch /\ path = None
    /\ traversal = NoTraversal
    /\ returned = <<>>
    /\ importer = NoImport
    /\ comps = TopologyComps
    /\ items = [c \in TopologyIds |-> c]
    /\ wires = <<>>
    /\ homerun_folders = sync_data(<<>>, comps, items)
    /\ undo_stack = <<>>
    /\ redo_stack = <<>>
    /\ is_modified = TRUE
    /\ hung = FALSE

\* a.add_connection(b) (canvas.py 182-186); it emits no signal.
AddConnection(a, b) ==
    /\ ConnectionCount(comps) < MaxConnections
    /\ comps' = [comps EXCEPT ![a].connections = add_connection(@, b)]
    /\ UNCHANGED <<items, wires, homerun_folders, undo_stack, redo_stack,
                   is_modified, hung, mapVars, callVars>>

\* circuit_updated: _sync_data and _mark_modified (main.py 913-914).
CircuitUpdated ==
    /\ homerun_folders' = sync_data(homerun_folders, comps, items)
    /\ is_modified' = TRUE
    /\ UNCHANGED <<comps, items, wires, undo_stack, redo_stack, hung,
                   mapVars, callVars>>

NextTopology ==
    \/ \E a \in TopologyIds, b \in TopologyIds : AddConnection(a, b)
    \/ CircuitUpdated

SpecTopology == InitTopology /\ [][NextTopology]_vars

----------------------------------------------------------------------------
(* The traversal of _update_homerun_folder, one loop iteration at a time *)

GraphIds == 1..MaxGraph

\* The values a connections list can have: add_connection never appends a
\* component twice (canvas.py 183).
RECURSIVE ListsOver(_)
ListsOver(ids) ==
    {<<>>} \cup UNION {{<<c>> \o rest : rest \in ListsOver(ids \ {c})} : c \in ids}

ConnectionLists == ListsOver(GraphIds)

\* A feeder and loads whose connections lists are those of graph.
GraphComps(graph) ==
    [c \in GraphIds |->
        [ElectricalComponent(IF c = 1 THEN [name |-> "Feeder", type |-> "Feeder"]
                                      ELSE [name |-> "Duplex", type |-> "Receptacle"],
                             SceneCentre)
            EXCEPT !.connections = graph[c]]]

InitTraversal ==
    /\ obstacle_map = None /\ floorplan_item = None
    /\ start = None /\ end = None /\ pc = "idle" /\ search = NoSearch /\ path = None
    /\ traversal = NoTraversal
    /\ returned = <<>>
    /\ importer = NoImport
    /\ \E graph \in [GraphIds -> ConnectionLists] : comps = GraphComps(graph)
    /\ items = [c \in GraphIds |-> c]
    /\ wires = <<>>
    /\ homerun_folders = <<>>
    /\ undo_stack = <<>>
    /\ redo_stack = <<>>
    /\ is_modified = FALSE
    /\ hung = FALSE

\* main.py 1719-1739: the folder is found or created, its children are taken
\* away, and visited, queue, connected_items are set up.  dequeued records
\* every component popped so far.
StartTraversal(item) ==
    /\ traversal.pc = "idle"
    /\ item \in SeqToSet(items) /\ IsHomerunRoot(comps[item])
    /\ LET name == comps[item].name
           folder == IF name \in DOMAIN homerun_folders
                     THEN homerun_folders[name] ELSE NewFolder
       IN  homerun_folders' = Put(homerun_folders, name,
                                  [folder EXCEPT !.children = <<>>])
    /\ traversal' = [pc |-> "loop", item |-> item, visited |-> {item},
                     queue |-> <<item>>, connected_items |-> <<>>,
                     dequeued |-> <<>>]
    /\ UNCHANGED <<comps, items, wires, undo_stack, redo_stack, is_modified, hung,
                   mapVars, start, end, pc, search, path, returned>>

\* One iteration of the while loop (main.py 1741-1749).
Dequeue ==
    /\ traversal.pc = "loop"
    /\ traversal.queue # <<>>
    /\ Len(traversal.dequeued) <= Len(comps)
    /\ LET current == Head(traversal.queue)
           v == VisitNeighbours(comps[current].connections, 1,
                                traversal.visited, Tail(traversal.queue))
       IN  traversal' =
               [traversal EXCEPT
                   !.connected_items = IF current # traversal.item
                                       THEN Append(@, current) ELSE @,
                   !.visited = v.visited,
                   !.queue = v.queue,
                   !.dequeued = Append(@, current)]
    /\ UNCHANGED <<mapVars, canvasVars, start, end, pc, search, path, returned>>

\* The loop has ended: the children are added to the folder (main.py 1751-1766).
FinishTraversal ==
    /\ traversal.pc = "loop"
    /\ traversal.queue = <<>>
    /\ LET name == comps[traversal.item].name
       IN  homerun_folders' =
               [homerun_folders EXCEPT
                   ![name].children = traversal.connected_items]
    /\ traversal' = [traversal EXCEPT !.pc = "done"]
    /\ UNCHANGED <<comps, items, wires, undo_stack, redo_stack, is_modified, hung,
                   mapVars, start, end, pc, search, path, returned>>

NextTraversal ==
    \/ \E item \in GraphIds : StartTraversal(item)
    \/ Dequeue
    \/ FinishTraversal

\* The handler runs to its end once called: nothing else runs on the GUI thread.
SpecTraversal ==
    InitTraversal /\ [][NextTraversal]_vars /\ WF_vars(NextTraversal)

----------------------------------------------------------------------------
(* The planner called again and again on one floor plan *)

\* Anchors the calls run between: corners of the bitmap, with two shortest
\* routes of equal length around its middle node.
RepeatPoints == {<<0, 0>>, <<2 * GridUnit, 2 * GridUnit>>, <<2 * GridUnit, 0>>}

InitRepeat ==
    /\ \/ obstacle_map = None /\ floorplan_item = None
       \/ obstacle_map \in CanvasBitmaps /\ floorplan_item = FloorplanItem
    /\ start \in RepeatPoints /\ end \in RepeatPoints
    /\ pc = "idle"
    /\ search = NoSearch
    /\ path = None
    /\ traversal = NoTraversal
    /\ returned = <<>>
    /\ importer = NoImport
    /\ EmptyCanvas

\* update_position calls calculate_astar_path once more (canvas.py 57), between
\* from and to.  The path the call before returned is kept in returned.
CallAgain(from, to) ==
    /\ pc = "done"
    /\ <<start, end>> \in DOMAIN returned \/ Cardinality(DOMAIN returned) < MaxRecorded
    /\ returned' = IF <<start, end>> \in DOMAIN returned THEN returned
                   ELSE Put(returned, <<start, end>>, path)
    /\ start' = from
    /\ end' = to
    /\ pc' = "idle"
    /\ UNCHANGED <<obstacle_map, floorplan_item, importer, search, path, traversal>>
    /\ UNCHANGED canvasVars

NextRepeat ==
    \/ CallNoMap
    \/ CallSearch
    \/ Expand
    \/ Return
    \/ \E from \in RepeatPoints, to \in RepeatPoints : CallAgain(from, to)

SpecRepeat == InitRepeat /\ [][NextRepeat]_vars

----------------------------------------------------------------------------
(* The planner on a floor plan of 5 x 5 cells with a wall across x = 40 *)

ScenarioNodes == {<<c * GridUnit, r * GridUnit>> : c \in 0..4, r \in 0..4}

\* The dark pixels: x = 40 for y = 0, 20, 40, 60.
ScenarioWall == {<<2 * GridUnit, r * GridUnit>> : r \in 0..3}

ScenarioBitmap ==
    [width |-> 5 * GridUnit, height |-> 5 * GridUnit,
     lightness |-> [p \in ScenarioNodes |->
                       IF p \in ScenarioWall THEN WallThreshold - 1 ELSE WallThreshold]]

\* Wires start left of the wall and end right of it, on and off the grid nodes.
ScenarioStarts == {0, 5, 10, 15} \X {0, 30, 45, 80}
ScenarioEnds == {70, 75, 80} \X {0, 50, 65}

InitScenario ==
    /\ obstacle_map = ScenarioBitmap /\ floorplan_item = FloorplanItem
    /\ start \in ScenarioStarts
    /\ end \in ScenarioEnds
    /\ pc = "idle"
    /\ search = NoSearch
    /\ path = None
    /\ traversal = NoTraversal
    /\ returned = <<>>
    /\ importer = NoImport
    /\ EmptyCanvas

NextScenario == CallSearch \/ Expand \/ Return

SpecScenario == InitScenario /\ [][NextScenario]_vars

----------------------------------------------------------------------------
(* The floor-plan import: the worker thread converts the file while the GUI  *)
(* thread sits in the modal dialog, then the GUI thread loads the PNG        *)

\* QGraphicsPixmapItem(pixmap) at the scene origin (canvas.py 306-311).
PixmapItem(pixmap) == [pos |-> <<0, 0>>, pixmap |-> pixmap]

\* The floor plan shown before the import and the one the import brings.
OldPlan == BitmapOf({<<GridUnit, GridUnit>>})
NewPlan == BitmapOf({<<GridUnit, 0>>, <<GridUnit, GridUnit>>})

\* A variant in which events are handled while set_template is running.
SetTemplateYields(gui) == FALSE

\* The GUI thread is inside set_template: the method runs from line 288 to
\* line 339 without handing control back to the event loop.
SetTemplateRunning(gui) == gui \in {"set_template", "item_removed", "item_added"}

\* The GUI thread is inside calculate_astar_path.
InSearch == pc \in {"search", "reconstruct", "diverged"}

InitImport ==
    /\ \/ obstacle_map = None /\ floorplan_item = None
       \/ obstacle_map = OldPlan /\ floorplan_item = PixmapItem(OldPlan)
    /\ start \in RepeatPoints /\ end \in RepeatPoints
    /\ pc = "idle"
    /\ search = NoSearch
    /\ path = None
    /\ traversal = NoTraversal
    /\ returned = <<>>
    /\ importer = NoImport
    /\ EmptyCanvas

\* MainWindow.import_floorplan and FloorplanImporter.run up to dialog.exec()
\* (main.py 1203-1209, 378-387): the worker is started, the dialog opens.
ImportFloorplan ==
    /\ importer.gui = "idle" /\ importer.worker = "off"
    /\ ~InSearch
    /\ importer' = [gui |-> "dialog", worker |-> "running"]
    /\ UNCHANGED <<obstacle_map, floorplan_item, callVars, canvasVars>>

\* _ImportWorker.run (main.py 114-146), on the worker thread: the file is
\* converted and finished_ok or finished_err is emitted.  It touches nothing
\* of the canvas.
WorkerRun(outcome) ==
    /\ importer.worker = "running"
    /\ importer' = [importer EXCEPT !.worker = outcome]
    /\ UNCHANGED <<obstacle_map, floorplan_item, callVars, canvasVars>>

\* The dialog handles the worker's signal and closes (main.py 360-366,
\* 387-390, 397-399).
DialogDone ==
    /\ importer.gui = "dialog"
    /\ importer.worker \in {"finished_ok", "finished_err"}
    /\ ~InSearch
    /\ importer' = [gui |-> IF importer.worker = "finished_ok"
                            THEN "load_from_png" ELSE "idle",
                    worker |-> "off"]
    /\ UNCHANGED <<obstacle_map, floorplan_item, callVars, canvasVars>>

\* canvas.load_from_png(result_png) (called at main.py 391): the PNG becomes
\* the floor plan, through set_template.  A pixmap that fails to load leaves
\* the method at line 296.
LoadFromPng(loads) ==
    /\ importer.gui = "load_from_png"
    /\ importer' = [importer EXCEPT !.gui = IF loads THEN "set_template" ELSE "idle"]
    /\ UNCHANGED <<obstacle_map, floorplan_item, callVars, canvasVars>>

\* set_template, lines 300-303: the item shown so far is removed.
TemplateRemove ==
    /\ importer.gui = "set_template"
    /\ floorplan_item' = None
    /\ importer' = [importer EXCEPT !.gui = "item_removed"]
    /\ UNCHANGED <<obstacle_map, callVars, canvasVars>>

\* set_template, lines 306-324: the new item is made and added to the scene.
TemplateItem ==
    /\ importer.gui = "item_removed"
    /\ floorplan_item' = PixmapItem(NewPlan)
    /\ importer' = [importer EXCEPT !.gui = "item_added"]
    /\ UNCHANGED <<obstacle_map, callVars, canvasVars>>

\* set_template, lines 327-339: the image is cached and the view fitted.
TemplateImage ==
    /\ importer.gui = "item_added"
    /\ obstacle_map' = floorplan_item.pixmap
    /\ importer' = [importer EXCEPT !.gui = "idle"]
    /\ UNCHANGED <<floorplan_item, callVars, canvasVars>>

\* A wire is routed by a handler of the GUI thread, which runs when the thread
\* is not inside another handler.
Route ==
    /\ ~SetTemplateRunning(importer.gui)
    /\ importer.gui # "load_from_png"
    /\ \/ CallNoMap
       \/ CallSearch
       \/ Expand
       \/ Return
       \/ \E from \in RepeatPoints, to \in RepeatPoints : CallAgain(from, to)

NextImport ==
    \/ ImportFloorplan
    \/ \E outcome \in {"finished_ok", "finished_err"} : WorkerRun(outcome)
    \/ DialogDone
    \/ \E loads \in BOOLEAN : LoadFromPng(loads)
    \/ TemplateRemove
    \/ TemplateItem
    \/ TemplateImage
    \/ Route

SpecImport == InitImport /\ [][NextImport]_vars

----------------------------------------------------------------------------
(* Shorthands for the claims *)

Free(n) == ~is_wall_at(obstacle_map, floorplan_item, n)
RouteDist == BfsDist(obstacle_map, floorplan_item, SnapNode(start), SnapNode(end))

s_node == SnapNode(start)
e_node == SnapNode(end)
Searched == obstacle_map # None /\ pc = "done"
Found == Searched /\ e_node \in DOMAIN search.came_from
Exhausted == Searched /\ e_node \notin DOMAIN search.came_from

----------------------------------------------------------------------------
(* Claims about the planner, checked under SpecSearch *)

\* C1: every returned non-fallback path moves by exactly one GridUnit along one
\* axis between consecutive nodes, and none of its nodes, the first and the
\* last included, is blocked.
C1_WallAvoidance ==
    Found =>
        /\ \A i \in 1..(Len(path) - 1) : UnitStep(path[i], path[i + 1])
        /\ \A i \in 1..Len(path) : Free(path[i])

\* C2: the search always ends: it pops e_node or empties the frontier, and
\* never goes on expanding into the unbounded free plane.
C2_Terminates == pc # "diverged"

\* C4: when the frontier empties without reaching e_node, the planner returns
\* the three-point bend [start, (end.x, start.y), end].
C4_FallbackIsBend ==
    Exhausted => path = <<start, <<end[1], start[2]>>, end>>

\* C5: with no bitmap loaded and start # end, the planner returns exactly
\* [start, (end.x, start.y), end], also off the grid nodes.
C5_NoObstacleBend ==
    (pc = "done" /\ obstacle_map = None /\ start # end)
        => path = <<start, <<end[1], start[2]>>, end>>

\* C6: whenever a route from s to e exists, the search finds one, and its
\* number of steps is the breadth-first shortest distance.
C6_Optimal ==
    (pc \in {"done", "diverged"} /\ obstacle_map # None /\ RouteDist >= 0)
        => /\ Found
           /\ Len(path) - 1 = RouteDist

\* C6 witness: a search that ended on a route longer than the straight
\* Manhattan distance, around a wall.
C6_Witness ==
    /\ Found
    /\ (Len(path) - 1) * GridUnit > Heuristic(e_node, s_node)

----------------------------------------------------------------------------
(* Claims about wires on the canvas, checked under Spec and SpecScene *)

\* The path findPath gives for wire w at the positions the components have now.
FreshPath(w) ==
    WirePath(comps, wires[w].start_item, wires[w].end_item,
             obstacle_map, floorplan_item)

\* C3: whenever a wire is painted, its cached path is the planner's path
\* between the current positions of its two components on the current floor
\* plan, also after a component was dragged.
C3_PathFollowsMoves ==
    ~hung => \A w \in 1..Len(wires) : wires[w].path_points = FreshPath(w)

Removed(c) == c \notin SeqToSet(items)

\* C7: no wire stays in the scene, or in the wires list of a component still
\* in the scene, once its start or its end component has been removed.
C7_WiresDieWithComponents ==
    /\ \A w \in 1..Len(wires) :
           ~Removed(wires[w].start_item) /\ ~Removed(wires[w].end_item)
    /\ \A c \in SeqToSet(items) : \A i \in 1..Len(comps[c].wires) :
           /\ ~Removed(wires[comps[c].wires[i]].start_item)
           /\ ~Removed(wires[comps[c].wires[i]].end_item)

\* The components of the scene joined to c by a chain of wires, c included.
RECURSIVE WireJoined(_)
WireJoined(group) ==
    LET more == {c \in SeqToSet(items) :
                    \E w \in 1..Len(wires) :
                        \/ wires[w].start_item \in group /\ wires[w].end_item = c
                        \/ wires[w].end_item \in group /\ wires[w].start_item = c}
    IN  IF more \subseteq group THEN group ELSE WireJoined(group \cup more)

\* C8: once components are wired, the homerun folder of a feeder lists every
\* component joined to that feeder by a chain of wires.
C8_TreeFollowsWires ==
    \A c \in SeqToSet(items) :
        (IsHomerunRoot(comps[c]) /\ comps[c].name \in DOMAIN homerun_folders)
            => (WireJoined({c}) \ {c})
                   \subseteq SeqToSet(homerun_folders[comps[c].name].children)

----------------------------------------------------------------------------
(* Claims about the homerun tree, checked under SpecTopology *)

\* The components reachable from the components of group along connections.
RECURSIVE Reach(_)
Reach(group) ==
    LET more == UNION {SeqToSet(comps[c].connections) : c \in group}
    IN  IF more \subseteq group THEN group ELSE Reach(group \cup more)

\* The components at most k hops from root, and the hop distance of c.
RECURSIVE Within(_, _)
Within(root, k) ==
    IF k = 0 THEN {root}
    ELSE LET near == Within(root, k - 1)
         IN  near \cup UNION {SeqToSet(comps[c].connections) : c \in near}

Hops(root, c) == CHOOSE k \in 0..Len(comps) : c \in Within(root, k)
                     /\ (k = 0 \/ c \notin Within(root, k - 1))

Index(s, x) == CHOOSE i \in 1..Len(s) : s[i] = x

\* The component the traversal from root finds c through: the first one, in
\* the order root, listing, that has c among its connections.
Parent(root, listing, c) ==
    LET order == <<root>> \o listing
        first == CHOOSE i \in 1..Len(order) :
                     /\ c \in SeqToSet(comps[order[i]].connections)
                     /\ \A j \in 1..(i - 1) :
                            c \notin SeqToSet(comps[order[j]].connections)
    IN  order[first]

BreadthFirst(root, listing) ==
    /\ SeqToSet(listing) = Reach({root}) \ {root}
    /\ Cardinality(SeqToSet(listing)) = Len(listing)
    /\ \A i \in 1..Len(listing) : \A j \in (i + 1)..Len(listing) :
           /\ Hops(root, listing[i]) <= Hops(root, listing[j])
           /\ Parent(root, listing, listing[i]) = Parent(root, listing, listing[j])
                  => LET p == comps[Parent(root, listing, listing[i])].connections
                     IN  Index(p, listing[i]) < Index(p, listing[j])

\* C9: for every root, the traversal lists exactly the components reachable
\* from root along connections, root left out, each once, by nondecreasing hop
\* distance, and the neighbours of one component in the order of its
\* connections list.
C9_BreadthFirstListing ==
    \A root \in SeqToSet(items) : BreadthFirst(root, ConnectedItems(comps, root))

\* C9 witness: the feeder's folder was rebuilt on a graph with a component two
\* hops away and two components found through the same one.
C9_Witness ==
    /\ "Feeder" \in DOMAIN homerun_folders
    /\ LET listing == homerun_folders["Feeder"].children
       IN  /\ listing = ConnectedItems(comps, 1)
           /\ Len(listing) >= 3
           /\ \E i \in 1..Len(listing) : Hops(1, listing[i]) = 2
           /\ \E i \in 1..Len(listing) : \E j \in (i + 1)..Len(listing) :
                  Parent(1, listing, listing[i]) = Parent(1, listing, listing[j])

\* root has exactly the three children of kids, and nothing else is connected.
Star(root, kids) ==
    /\ Len(kids) = 3
    /\ root \notin SeqToSet(kids)
    /\ comps[root].connections = kids
    /\ \A c \in SeqToSet(items) \ {root} : comps[c].connections = <<>>

\* C10: on a star, a root whose connections are A, B, C in the order they were
\* added and no further edges, the traversal yields <<A, B, C>>.
C10_StarOrder ==
    \A root \in SeqToSet(items) :
        Star(root, comps[root].connections)
            => ConnectedItems(comps, root) = comps[root].connections

\* C10 witness: the feeder's folder rebuilt on a star whose children were not
\* added in the order of their creation.
C10_Witness ==
    /\ Star(1, comps[1].connections)
    /\ comps[1].connections # <<2, 3, 4>>
    /\ "Feeder" \in DOMAIN homerun_folders
    /\ homerun_folders["Feeder"].children = comps[1].connections

----------------------------------------------------------------------------
(* Claims about the traversal loop, checked under SpecTraversal *)

NoRepeats(s) == \A i \in 1..Len(s) : \A j \in (i + 1)..Len(s) : s[i] # s[j]

\* C11: on every connection graph, cycles and self-loops included, the
\* traversal ends, dequeues no component twice and performs at most as many
\* dequeue steps as there are components.
C11_CycleSafety ==
    /\ [](traversal.pc # "idle" =>
              /\ NoRepeats(traversal.dequeued)
              /\ Len(traversal.dequeued) <= Len(comps))
    /\ <>(traversal.pc = "done")

\* C11 witness: the traversal ended on the cycle 1-2, 2-3, 3-1, connected in
\* both directions, with a self-loop on the root, after dequeuing all three.
C11_Witness ==
    /\ traversal.pc = "done"
    /\ comps[1].connections = <<1, 2, 3>>
    /\ SeqToSet(comps[2].connections) = {1, 3}
    /\ SeqToSet(comps[3].connections) = {1, 2}
    /\ Len(traversal.dequeued) = 3

----------------------------------------------------------------------------
(* Claims about connections and the obstacle query *)

\* C12: connections is an undirected relation: b is in the connections of a
\* if and only if a is in the connections of b.
C12_Undirected ==
    \A a \in SeqToSet(items) : \A b \in SeqToSet(items) :
        b \in SeqToSet(comps[a].connections) <=> a \in SeqToSet(comps[b].connections)

\* The pixel of node n lies inside the loaded bitmap.
InBounds(n) ==
    /\ 0 <= n[1] /\ n[1] < obstacle_map.width
    /\ 0 <= n[2] /\ n[2] < obstacle_map.height

\* C13: a node is blocked if and only if a bitmap is loaded, its pixel lies
\* inside the bitmap and the pixel's lightness is below 120; nodes outside the
\* bitmap are free, and without a bitmap every node is free.
C13_BlockedIff ==
    \A n \in Area :
        is_wall_at(obstacle_map, floorplan_item, n)
            <=> /\ obstacle_map # None
                /\ InBounds(n)
                /\ obstacle_map.lightness[n] < 120

\* C13 witness: a search ended that stepped over nodes outside the bitmap and
\* left out a dark node next to a node it reached, while a pixel of lightness
\* exactly 120 was passed as free.
C13_Witness ==
    /\ Found
    /\ \E n \in DOMAIN search.cost_so_far : ~InBounds(n)
    /\ \E n \in DOMAIN search.cost_so_far :
           InBounds(n) /\ obstacle_map.lightness[n] = 120
    /\ \E n \in MapNodes \ DOMAIN search.cost_so_far :
           /\ obstacle_map.lightness[n] = 119
           /\ \E m \in DOMAIN search.cost_so_far : UnitStep(m, n)

----------------------------------------------------------------------------
(* Claims about repeated calls of the planner, checked under SpecRepeat *)

----------------------------------------------------------------------------
(* Claims about the wall scenario, checked under SpecScenario *)

\* C15: on the 5 x 5 floor plan with the wall at x = 40, y = 0..60, the call
\* from (0,0) to (80,0) returns a searched path from (0,0) to (80,0) that has
\* no node with x = 40 and 0 <= y <= 60.
C15_WallScenario ==
    (pc \in {"done", "diverged"} /\ start = <<0, 0>> /\ end = <<80, 0>>)
        => /\ Found
           /\ path[1] = <<0, 0>>
           /\ path[Len(path)] = <<80, 0>>
           /\ \A i \in 1..Len(path) :
                  ~(path[i][1] = 40 /\ 0 <= path[i][2] /\ path[i][2] <= 60)

\* C15 witness: that call returned a path of unit steps that is longer than
\* the straight line, having gone round the wall.
C15_Witness ==
    /\ Found /\ start = <<0, 0>> /\ end = <<80, 0>>
    /\ Len(path) > 5
    /\ \A i \in 1..(Len(path) - 1) : UnitStep(path[i], path[i + 1])

----------------------------------------------------------------------------
(* Claims about the shape of cached paths *)

\* C16: every cached wire path has at least two points, begins at the wire's
\* start endpoint and ends at its end endpoint (at the nodes s and e these
\* snap to, when the path is a search result).
C16_PathJoinsEndpoints ==
    \A w \in 1..Len(wires) :
        LET points == wires[w].path_points
            p1 == Anchor(comps[wires[w].start_item].pos)
            p2 == Anchor(comps[wires[w].end_item].pos)
        IN  /\ Len(points) >= 2
            /\ points[1] \in {p1, SnapNode(p1)}
            /\ points[Len(points)] \in {p2, SnapNode(p2)}

\* The call has ended, or never will, with both endpoints on one node.
Degenerate == pc \in {"done", "diverged"} /\ s_node = e_node

\* C17: when start and end snap to the same node the call returns a
\* zero-length path, all its points being one point, with and without a
\* bitmap.
C17_DegenerateZeroLength ==
    Degenerate =>
        /\ pc = "done"
        /\ \A i \in 1..Len(path) : path[i] = path[1]

OnGrid(n) == n[1] % GridUnit = 0 /\ n[2] % GridUnit = 0

\* node is a grid node nearest to the point p on each axis, at most half a
\* GridUnit away.
Nearest(p, node) ==
    /\ OnGrid(node)
    /\ \A axis \in 1..2 :
           /\ Abs(p[axis] - node[axis]) <= HalfUnit
           /\ \A k \in (-2)..6 :
                  Abs(p[axis] - node[axis]) <= Abs(p[axis] - k * GridUnit)

\* C18: start and end are snapped to the nearest multiple of GridUnit on each
\* axis, and every node the search queues, records in cost_so_far or
\* came_from, asks is_wall_at about or returns in a searched path is a grid
\* node.
C18_GridNodes ==
    /\ Nearest(start, s_node) /\ Nearest(end, e_node)
    /\ pc # "idle" =>
           /\ search.s_node = s_node /\ search.e_node = e_node
           /\ \A entry \in search.queue : OnGrid(entry[2])
           /\ \A n \in DOMAIN search.cost_so_far :
                  /\ OnGrid(n)
                  /\ \A d \in SeqToSet(Dirs) : OnGrid(<<n[1] + d[1], n[2] + d[2]>>)
           /\ \A n \in DOMAIN search.came_from :
                  OnGrid(n) /\ (search.came_from[n] # None => OnGrid(search.came_from[n]))
    /\ Found => \A i \in 1..Len(path) : OnGrid(path[i])

\* C18 witness: a search returned whose start and end both lie off the grid
\* nodes on both axes.
C18_Witness ==
    /\ Found
    /\ start[1] % GridUnit # 0 /\ start[2] % GridUnit # 0
    /\ end[1] % GridUnit # 0 /\ end[2] % GridUnit # 0
    /\ Len(path) > 2

----------------------------------------------------------------------------
(* Claims about the rebuild of the tree, checked under SpecTopology *)

\* C19: every rebuild leaves under the folder of a homerun exactly the
\* traversal's result on the connections as they are now, whatever the folder
\* held before, and a second rebuild with connections unchanged leaves the
\* same children in the same order.
C19_RebuildIsRecreate ==
    [][CircuitUpdated =>
          /\ \A c \in SeqToSet(items') :
                 IsHomerunRoot(comps'[c]) =>
                     homerun_folders'[comps'[c].name].children
                         = ConnectedItems(comps', c)
          /\ sync_data(homerun_folders', comps', items') = homerun_folders']_vars

\* C19 witness: the folder of the feeder was rebuilt after a component was
\* taken in front of one it listed before: the children are the traversal's
\* result, three components not in the order of their creation.
C19_Witness ==
    /\ "Feeder" \in DOMAIN homerun_folders
    /\ homerun_folders["Feeder"].children = ConnectedItems(comps, 1)
    /\ Len(homerun_folders["Feeder"].children) = 3
    /\ comps[1].connections = <<3>>
    /\ homerun_folders["Feeder"].children[3] = 2

----------------------------------------------------------------------------
(* Claims about routing and the kind of a wire, checked under Spec *)

\* C20: the path of a wire is a function of its two endpoint positions and
\* the floor plan alone: wires routed between the same two points have the
\* same path, whatever their kind, their place among the wires and the other
\* wires there are.
C20_NonInterference ==
    \A w1 \in 1..Len(wires) : \A w2 \in 1..Len(wires) :
        wires[w1].line = wires[w2].line
            => wires[w1].path_points = wires[w2].path_points

\* C20 witness: a feeder line and a branch wire routed between the same two
\* different points of a floor plan.
C20_Witness ==
    /\ Len(wires) = 2
    /\ obstacle_map # None
    /\ wires[1].line = wires[2].line
    /\ wires[1].is_feeder_line # wires[2].is_feeder_line
    /\ wires[1].line[1] # wires[1].line[2]
    /\ Len(wires[1].path_points) > 2

----------------------------------------------------------------------------
(* Claims about the floor-plan import, checked under SpecImport *)

\* obstacle_map and floorplan_item belong to one floor plan, or there is none.
OnePlan ==
    \/ obstacle_map = None /\ floorplan_item = None
    \/ /\ obstacle_map # None /\ floorplan_item # None
       /\ floorplan_item.pixmap = obstacle_map

\* C21: whatever way the import interleaves with routing, every is_wall_at
\* query of a running search sees obstacle_map and floorplan_item of one fully
\* loaded floor plan, or none, never the old of one with the new of the other.
C21_AtomicSwap == pc = "search" => OnePlan

\* C21 witness: a search runs on the new floor plan, loaded by an import that
\* replaced the old one.
C21_Witness ==
    /\ pc = "search"
    /\ obstacle_map = NewPlan
    /\ floorplan_item = PixmapItem(NewPlan)
    /\ DOMAIN returned # {}

----------------------------------------------------------------------------
(* Claims about wires and their components, checked under Spec *)

\* C22: after any wire creations and moves, every wire is in the wires list of
\* its start component and of its end component, and every wire in a
\* component's wires list starts or ends at that component.
C22_BackReferences ==
    /\ \A w \in 1..Len(wires) :
           /\ w \in SeqToSet(comps[wires[w].start_item].wires)
           /\ w \in SeqToSet(comps[wires[w].end_item].wires)
    /\ \A c \in 1..Len(comps) : \A i \in 1..Len(comps[c].wires) :
           /\ comps[c].wires[i] \in 1..Len(wires)
           /\ c \in {wires[comps[c].wires[i]].start_item,
                     wires[comps[c].wires[i]].end_item}

\* C22 witness: two wires were drawn and a component holding both was moved.
C22_Witness ==
    /\ Len(wires) = 2
    /\ \E c \in 1..Len(comps) :
           /\ Len(comps[c].wires) = 2
           /\ comps[c].pos # SceneCentre

\* Wire w starts or ends at component c.
Touches(w, c) == c \in {wires[w].start_item, wires[w].end_item}

\* The step updated the wires at c as update_position does, with the positions
\* it reads, and left every other wire as it was.
MovedOnly(c) ==
    \A w \in 1..Len(wires) :
        IF Touches(w, c)
        THEN wires'[w].path_points =
                 WirePath(comps, wires[w].start_item, wires[w].end_item,
                          obstacle_map, floorplan_item)
        ELSE wires'[w] = wires[w]

\* C23: a move of a component recomputes the path of every wire attached to
\* that component, and leaves every wire not touching it unchanged.
C23_MoveRecomputesAttached ==
    [][(~hung' /\ Len(wires') = Len(wires) /\ Len(comps') = Len(comps))
       => /\ \A c \in 1..Len(comps) :
                 comps'[c].pos # comps[c].pos => MovedOnly(c)
          /\ wires' # wires => \E c \in 1..Len(comps) : MovedOnly(c)]_vars

\* C23 witness: a component was moved that one wire is attached to and the
\* other wire is not.
C23_Witness ==
    /\ Len(wires) = 2
    /\ \E c \in 1..Len(comps) :
           /\ comps[c].pos # SceneCentre
           /\ Touches(1, c) /\ ~Touches(2, c)
           /\ wires[1].line[1] # wires[1].line[2]

----------------------------------------------------------------------------
(* Claims about the bookkeeping of the search, checked under SpecSearch *)

\* The nodes of the entries pushed by the step.
Pushed == {entry[2] : entry \in search'.queue \ search.queue}

\* C24: in every pass of the search loop no recorded cost increases, a node is
\* pushed only when it had no recorded cost or gets a strictly lower one, with
\* the priority of that cost, and a node whose cost stays the same keeps its
\* predecessor and is not pushed.
C24_Bookkeeping ==
    [][(pc = "search" /\ pc' # "done")
       => /\ \A n \in DOMAIN search.cost_so_far :
                 /\ n \in DOMAIN search'.cost_so_far
                 /\ search'.cost_so_far[n] <= search.cost_so_far[n]
                 /\ search'.cost_so_far[n] = search.cost_so_far[n]
                        => /\ search'.came_from[n] = search.came_from[n]
                           /\ n \notin Pushed
          /\ \A entry \in search'.queue \ search.queue :
                 /\ entry[2] \in DOMAIN search'.cost_so_far
                 /\ entry[1] = search'.cost_so_far[entry[2]]
                                   + Heuristic(search.e_node, entry[2])
                 /\ \/ entry[2] \notin DOMAIN search.cost_so_far
                    \/ search'.cost_so_far[entry[2]] < search.cost_so_far[entry[2]]]_vars

\* A node with an entry in the queue.
Queued(n) == \E entry \in search.queue : entry[2] = n

\* C24 witness: a recorded node has two neighbours one step nearer the start
\* that were both expanded, so it was found twice at the same cost.
C24_Witness ==
    /\ pc = "search"
    /\ \E n \in DOMAIN search.cost_so_far :
       \E d1 \in SeqToSet(Dirs), d2 \in SeqToSet(Dirs) :
           /\ d1 # d2
           /\ \A d \in {d1, d2} :
                  LET m == <<n[1] + d[1], n[2] + d[2]>>
                  IN  /\ m \in DOMAIN search.cost_so_far
                      /\ search.cost_so_far[m] + GridUnit = search.cost_so_far[n]
                      /\ ~Queued(m)
                      /\ m # search.e_node

\* The search was just entered: nothing popped yet.
Entered ==
    /\ pc = "search"
    /\ search.queue = {<<0, search.s_node>>}
    /\ DOMAIN search.cost_so_far = {search.s_node}

RECURSIVE FreeSteps(_, _, _)
\* Breadth-first from the end node backwards over free nodes: dist maps every
\* free node found so far to its number of steps to the end node.
FreeSteps(frontier, dist, k) ==
    LET nxt == {m \in AreaOf(obstacle_map) \ DOMAIN dist :
                   Free(m) /\ \E n \in frontier : UnitStep(n, m)}
    IN  IF nxt = {} THEN dist
        ELSE FreeSteps(nxt, [m \in DOMAIN dist \cup nxt |->
                                IF m \in nxt THEN k + 1 ELSE dist[m]], k + 1)

\* The steps to the end node e from every free node that has a route to it.
StepsTo(e) == IF Free(e) THEN FreeSteps({e}, [m \in {e} |-> 0], 0) ELSE <<>>

\* The cost of a shortest route from n to e over free nodes (n itself may be
\* blocked), given the steps of the free nodes; -1 if there is none.
Remaining(steps, e, n) ==
    IF n = e THEN 0
    ELSE IF n \in DOMAIN steps THEN steps[n] * GridUnit
    ELSE LET next == {m \in DOMAIN steps : UnitStep(n, m)}
         IN  IF next = {} THEN -1
             ELSE GridUnit * (1 + CHOOSE k \in {steps[m] : m \in next} :
                                      \A m \in next : k <= steps[m])

\* C25: for every node n of the grid the heuristic is at most the cost of a
\* shortest route from n to the end node over free nodes, and for every
\* neighbour m of n it is at most GridUnit more than the heuristic of m.
C25_AdmissibleConsistent ==
    Entered =>
        LET steps == StepsTo(search.e_node)
        IN  \A n \in Area :
                /\ Remaining(steps, search.e_node, n) # -1
                       => Heuristic(search.e_node, n) <= Remaining(steps, search.e_node, n)
                /\ \A d \in SeqToSet(Dirs) :
                       Heuristic(search.e_node, n)
                           <= GridUnit + Heuristic(search.e_node, <<n[1] + d[1], n[2] + d[2]>>)

\* C25 witness: at the node the search starts from, the end node is reachable
\* only by a detour around a wall, longer than the heuristic says.
C25_Witness ==
    /\ Entered
    /\ RouteDist > 0
    /\ Heuristic(search.e_node, search.s_node) < RouteDist * GridUnit

----------------------------------------------------------------------------
(* Claims about the navigation tree, checked under SpecTree *)

\* A step that runs _sync_data.
Rebuild ==
    \/ \E kind \in Library : AddComponent(kind)
    \/ \E c \in CompIds, new_name \in RenameInputs : ApplyProps(c, new_name)
    \/ \E selected \in SUBSET CompIds : DeleteSelected(selected)

\* C26: a rebuild of the homerun folders keeps each folder's state: the folder
\* of a name that was expanded before is expanded after, and one that was
\* collapsed stays collapsed.
C26_ExpansionKept ==
    [][Rebuild =>
          \A name \in DOMAIN homerun_folders :
              /\ name \in DOMAIN homerun_folders'
              /\ homerun_folders'[name].expanded = homerun_folders[name].expanded]_vars

\* C26 witness: an expanded and a collapsed folder, each of a homerun on the
\* canvas, with the canvas full.
C26_Witness ==
    /\ Len(comps) = MaxComponents
    /\ \E a \in SeqToSet(items), b \in SeqToSet(items) :
           /\ IsHomerunRoot(comps[a]) /\ IsHomerunRoot(comps[b])
           /\ homerun_folders[comps[a].name].expanded
           /\ ~homerun_folders[comps[b].name].expanded

\* C29: after every _sync_data, every homerun folder of the tree belongs to a
\* Feeder or Homerun component that is on the canvas now, under the name it
\* has now, and no two such components share a folder.
C29_FoldersMatchRoots ==
    /\ \A name \in DOMAIN homerun_folders :
           \E c \in SeqToSet(items) :
               IsHomerunRoot(comps[c]) /\ comps[c].name = name
    /\ \A a \in SeqToSet(items), b \in SeqToSet(items) :
           (a # b /\ IsHomerunRoot(comps[a]) /\ IsHomerunRoot(comps[b]))
               => comps[a].name # comps[b].name

----------------------------------------------------------------------------
(* Claims about the predecessor map, checked under SpecSearch *)

RECURSIVE RootedWithin(_, _, _, _)
\* Following came_from from n reaches s, whose predecessor is None, within k
\* steps.
RootedWithin(came_from, s, n, k) ==
    IF n = s THEN came_from[n] = None
    ELSE /\ k > 0
         /\ came_from[n] # None
         /\ came_from[n] \in DOMAIN came_from
         /\ RootedWithin(came_from, s, came_from[n], k - 1)

\* C27: at every point of a search the predecessor of the start node is None,
\* every other recorded node has a recorded predecessor of strictly lower
\* cost, and following the predecessors from any recorded node reaches the
\* start node in at most as many steps as there are recorded nodes.
C27_PredecessorsRooted ==
    pc \in {"search", "reconstruct"} =>
        /\ DOMAIN search.came_from = DOMAIN search.cost_so_far
        /\ \A n \in DOMAIN search.came_from :
               /\ n # search.s_node =>
                      /\ search.came_from[n] \in DOMAIN search.cost_so_far
                      /\ search.cost_so_far[search.came_from[n]] < search.cost_so_far[n]
               /\ RootedWithin(search.came_from, search.s_node, n,
                               Cardinality(DOMAIN search.came_from))

\* C27 witness: the loop ended with the end node recorded four or more steps
\* from the start node, after a node was found from two sides.
C27_Witness ==
    /\ pc = "reconstruct"
    /\ search.e_node \in DOMAIN search.came_from
    /\ search.cost_so_far[search.e_node] >= 4 * GridUnit
    /\ Cardinality(DOMAIN search.came_from) >= 8

----------------------------------------------------------------------------
(* Claims about wires and the floor plan, checked under SpecTemplate *)

\* C28: replacing the floor plan leaves the cached path of every wire as it
\* was, and the cached path of a wire changes only in a move of one of the
\* wire's own endpoints.
C28_TemplateKeepsPaths ==
    [][/\ (\E pixmap \in TemplateBitmaps : SetTemplate(pixmap)) => wires' = wires
       /\ \A w \in 1..Len(wires) :
              wires'[w].path_points # wires[w].path_points
                  => \E c \in CompIds, value \in MoveInputs :
                         MoveComponent(c, value) /\ Touches(w, c)]_vars

\* C28 witness: no component has moved since it was placed, and a wire holds a
\* path that is not the one the floor plan of now gives: the plan was replaced
\* after the wire was drawn.
C28_Witness ==
    /\ Len(wires) > 0
    /\ \A c \in 1..Len(comps) : comps[c].pos = SceneCentre
    /\ obstacle_map # None
    /\ wires[1].path_points # FreshPath(1)

----------------------------------------------------------------------------
(* Claims about undo and redo, checked under SpecUndo *)

\* C30: after any sequence of edits, undos and redos the undo stack holds at
\* most 30 snapshots, those that redo_last appends included, and every
\* _push_undo leaves the redo stack empty.
C30_UndoBounded ==
    /\ [](Len(undo_stack) <= UndoLimit)
    /\ [][NewProject => redo_stack' = <<>>]_vars

\* C30 witness: a redo has just filled the undo stack up to the limit.
C30_Witness ==
    /\ Len(undo_stack) = UndoLimit
    /\ redo_stack = <<>>
    /\ is_modified

====
